---- MODULE Spec2Model ----
(***************************************************************************)
(* Model of the contextmesh-cli publishing pipeline: the retry policy      *)
(* (utils/retry.ts, withRetry), the error taxonomy's NetworkError          *)
(* (errors/base.ts), the publisher (utils/publisher.ts, publishConnector / *)
(* createZipArchive / uploadToRegistry), the manifest functions            *)
(* (utils/manifest.ts, utils/validator.ts) and the publish command         *)
(* (commands/publish.ts).                                                  *)
(*                                                                         *)
(* Spec: three callers.  The unit-test style caller passes withRetry an    *)
(* arbitrary operation and arbitrary options (caller = "test"); a direct   *)
(* caller of publishConnector (caller = "publish"); the publish command    *)
(* (caller = "command"), which scaffolds, validates and then publishes.    *)
(* uploadToRegistry passes withRetry the metadata POST.                    *)
(*                                                                         *)
(* SpecUnits: one function called directly on one input, as the unit tests *)
(* call loadManifest, validateManifest, createManifestIfMissing,           *)
(* NetworkError.fromAxiosError and the packer's file selection.            *)
(***************************************************************************)
EXTENDS Integers, Sequences, FiniteSets, TLC

(***************************************************************************)
(* Bounds of the model                                                     *)
(***************************************************************************)
\* largest maxAttempts the test caller passes to withRetry
MaxAttemptsBound == 3
\* longest directory base name
MaxNameLen == 3
\* most tools in a manifest
MaxTools == 3
\* deepest nesting of directories above a file of the connector directory
MaxDepth == 2
\* most calls of createManifestIfMissing on one directory
MaxCreateCalls == 2
\* most changes another process makes to the manifest file during one command
MaxEdits == 1

(***************************************************************************)
(* Program constants                                                       *)
(***************************************************************************)
DefaultMaxAttempts == 3
DefaultBaseDelay == 1000
DefaultMaxDelay == 30000
DefaultFactor == 2
\* NetworkError.getRetryDelay(): (details.retryAfter) || 5
FallbackRetryDelay == 5
\* NetworkError.fromAxiosError, case 429: header absent
DefaultRateLimitDelay == 60
\* uploadToRegistry: withRetry(..., { maxAttempts: 3, onRetry })
PublishMaxAttempts == 3
\* parseInt of a text with no leading digits is NaN
NaN == -1

(***************************************************************************)
(* Error values.  Every error object is a record of one shape; id is the   *)
(* identity of the object (two objects are the same object iff same id).   *)
(*   cls        the JS class: "NetworkError", "AxiosError", "Error", ...   *)
(*   kind       ContextMeshError.code, "" for errors outside the taxonomy  *)
(*   retryable  details.retryable                                           *)
(*   hasRetryAfter / retryAfter   details.retryAfter (undefined or number) *)
(*   status     HTTP status (0: no response)                               *)
(*   code       Node / axios error code                                     *)
(*   header     retry-after response header of an AxiosError (<<>>: none)  *)
(***************************************************************************)
MkError(id, cls, kind, retryable, hasRA, ra, status, code, header) ==
    [id |-> id, cls |-> cls, kind |-> kind, retryable |-> retryable,
     hasRetryAfter |-> hasRA, retryAfter |-> ra, status |-> status,
     code |-> code, header |-> header]

NoError == MkError(0, "none", "", FALSE, FALSE, 0, 0, "", <<>>)

\* new NetworkError(message, { retryable, retryAfter })
NewNetworkError(id, retryable, hasRA, ra, status) ==
    MkError(id, "NetworkError", "NETWORK_ERROR", retryable, hasRA, ra, status, "", <<>>)

\* new Error(message)
NewGenericError(id, msg) ==
    MkError(id, "Error", "", FALSE, FALSE, 0, 0, msg, <<>>)

\* an error raised by axios: isAxiosError, response.status / code / headers
NewAxiosError(id, status, code, header) ==
    MkError(id, "AxiosError", "", FALSE, FALSE, 0, status, code, header)

\* an error raised by Node's fs (readFile, unlink): plain Error with a code
NewNodeError(id, code) ==
    MkError(id, "Error", "", FALSE, FALSE, 0, 0, code, <<>>)

\* AuthenticationError.missingToken()
MissingTokenError(id) ==
    MkError(id, "AuthenticationError", "AUTH_ERROR", FALSE, FALSE, 0, 0, "", <<>>)

\* FileSystemError.cannotCreateZip(reason)
CannotCreateZipError(id) ==
    MkError(id, "FileSystemError", "FILESYSTEM_ERROR", FALSE, FALSE, 0, 0, "", <<>>)

(***************************************************************************)
(* NetworkError methods                                                    *)
(***************************************************************************)
\* isRetryable(): (details.retryable as boolean) || false
isRetryable(e) == e.retryable

\* getRetryDelay(): (details.retryAfter as number) || 5   (0 and NaN are falsy)
getRetryDelay(e) ==
    IF e.hasRetryAfter /\ e.retryAfter # 0 /\ e.retryAfter # NaN
    THEN e.retryAfter
    ELSE FallbackRetryDelay

(***************************************************************************)
(* parseInt on a header text given as a sequence of characters: the value  *)
(* of the longest prefix of decimal digits, NaN if that prefix is empty.   *)
(***************************************************************************)
DigitValue(c) ==
    CASE c = "0" -> 0 [] c = "1" -> 1 [] c = "2" -> 2 [] c = "3" -> 3
      [] c = "4" -> 4 [] c = "5" -> 5 [] c = "6" -> 6 [] c = "7" -> 7
      [] c = "8" -> 8 [] c = "9" -> 9 [] OTHER -> -1

RECURSIVE ParseDigits(_, _, _)
ParseDigits(s, i, acc) ==
    IF i > Len(s) \/ DigitValue(s[i]) < 0
    THEN acc
    ELSE ParseDigits(s, i + 1, acc * 10 + DigitValue(s[i]))

parseInt(s) ==
    IF Len(s) = 0 \/ DigitValue(s[1]) < 0 THEN NaN ELSE ParseDigits(s, 1, 0)

(***************************************************************************)
(* NetworkError.fromAxiosError: status / code -> retryable, retryAfter     *)
(***************************************************************************)
\* 429 and every 5xx status
RetryableStatus_any5xx(status) == status = 429 \/ status >= 500

\* case 429 and case 500 / 502 / 503 / 504 set retryable = true
RetryableStatus(status) == status \in {429, 500, 502, 503, 504}

RetryableCode(code) == code \in {"ECONNREFUSED", "ETIMEDOUT", "ECONNABORTED", "ECONNRESET"}

fromAxiosError(id, ax) ==
    LET hasStatus == ax.status # 0
        retryable == IF hasStatus THEN RetryableStatus(ax.status)
                                  ELSE RetryableCode(ax.code)
        hasRA     == hasStatus /\ ax.status = 429
        ra        == IF hasRA
                     THEN (IF Len(ax.header) > 0 THEN parseInt(ax.header)
                                                 ELSE DefaultRateLimitDelay)
                     ELSE 0
    IN  MkError(id, "NetworkError", "NETWORK_ERROR", retryable, hasRA, ra,
                ax.status, ax.code, <<>>)

(***************************************************************************)
(* Texts are sequences of one-character strings wherever the code looks    *)
(* inside them (ids, versions, directory names).                           *)
(***************************************************************************)
UpperCase ==
    <<"A", "B", "C", "D", "E", "F", "G", "H", "I", "J", "K", "L", "M",
      "N", "O", "P", "Q", "R", "S", "T", "U", "V", "W", "X", "Y", "Z">>

LowerCase ==
    <<"a", "b", "c", "d", "e", "f", "g", "h", "i", "j", "k", "l", "m",
      "n", "o", "p", "q", "r", "s", "t", "u", "v", "w", "x", "y", "z">>

Range(s) == { s[i] : i \in DOMAIN s }

\* String.prototype.toLowerCase on one character / on a text
LowerChar(c) ==
    IF c \in Range(UpperCase)
    THEN LowerCase[CHOOSE k \in DOMAIN UpperCase : UpperCase[k] = c]
    ELSE c

toLowerCase(s) == [i \in DOMAIN s |-> LowerChar(s[i])]

\* the character class [a-z0-9-]
InIdClass(c) == c \in Range(LowerCase) \/ DigitValue(c) >= 0 \/ c = "-"

\* the class [0-9]
IsDigit(c) == DigitValue(c) >= 0

\* a text with every maximal run of characters outside [a-z0-9-] replaced
\* by one hyphen
RECURSIVE SlugPerRun(_, _)
SlugPerRun(s, inRun) ==
    IF s = <<>> THEN <<>>
    ELSE IF InIdClass(s[1]) THEN <<s[1]>> \o SlugPerRun(Tail(s), FALSE)
    ELSE IF inRun THEN SlugPerRun(Tail(s), TRUE)
    ELSE <<"-">> \o SlugPerRun(Tail(s), TRUE)

SynthesizeId_collapseRuns(name) == SlugPerRun(toLowerCase(name), FALSE)

\* path.basename(directory).toLowerCase().replace(/[^a-z0-9-]/g, '-')
SynthesizeId(name) ==
    [i \in DOMAIN name |->
        IF InIdClass(LowerChar(name[i])) THEN LowerChar(name[i]) ELSE "-"]

(***************************************************************************)
(* Manifests and the manifest file                                         *)
(*   has       the top-level properties present in the JSON object         *)
(*   schema, id, tools (the tools' names, in order), and of _contextmesh:  *)
(*   version, tags, language, repoHost ("" when repo is not a URI)         *)
(***************************************************************************)
RequiredFields == <<"schema", "id", "tools", "_contextmesh">>

SchemaUrl == "https://mcp.dev/schema/1.0"

Languages == {"typescript", "python", "rust", "go", "java"}

Manifest(has, schema, id, tools, version) ==
    [has |-> has, schema |-> schema, id |-> id, tools |-> tools,
     version |-> version, tags |-> << <<"e", "x", "a", "m", "p", "l", "e">> >>,
     language |-> "typescript", repoHost |-> "github.com"]

\* a default manifest whose tools list is empty
DefaultManifest_noTools(connectorId) ==
    Manifest(Range(RequiredFields), SchemaUrl, connectorId, <<>>,
             <<"0", ".", "1", ".", "0">>)

\* the manifest createManifestIfMissing writes for a connector id
DefaultManifest(connectorId) ==
    Manifest(Range(RequiredFields), SchemaUrl, connectorId, <<"example_tool">>,
             <<"0", ".", "1", ".", "0">>)

\* no manifest (nothing loaded yet)
NoManifest == Manifest({}, "", <<>>, <<>>, <<>>)

\* the file at <directory>/connector.mcp.json
\*   kind: "missing", "unreadable" (no read permission), "garbage" (not JSON), "json"
MissingFile == [kind |-> "missing", m |-> DefaultManifest(<<>>)]

UnreadableFile == [kind |-> "unreadable", m |-> DefaultManifest(<<>>)]

GarbageFile == [kind |-> "garbage", m |-> DefaultManifest(<<>>)]

JsonFile(m) == [kind |-> "json", m |-> m]

(***************************************************************************)
(* What a call gives back: a value, or a thrown error                      *)
(*   cls / kind as in the error records; code: Node's error code;          *)
(*   msg: the message's fixed text; names: the names the message lists     *)
(***************************************************************************)
NoThrown == [cls |-> "none", kind |-> "", code |-> "", msg |-> "", names |-> <<>>]

Returned(v) == [ok |-> TRUE, value |-> v, err |-> NoThrown]

Thrown(cls, kind, code, msg, names) ==
    [ok |-> FALSE, value |-> DefaultManifest(<<>>),
     err |-> [cls |-> cls, kind |-> kind, code |-> code, msg |-> msg, names |-> names]]

\* the error object of a failed call, as the publisher and the command see it
AsError(id, t) ==
    MkError(id, t.cls, t.kind, FALSE, FALSE, 0, 0,
            IF t.code # "" THEN t.code ELSE t.msg, <<>>)

\* fs.readFileSync(path, 'utf-8') on the manifest file
readFileSync(f) ==
    IF f.kind = "missing" THEN Thrown("Error", "", "ENOENT", "no such file or directory", <<>>)
    ELSE IF f.kind = "unreadable" THEN Thrown("Error", "", "EACCES", "permission denied", <<>>)
    ELSE Returned(f.m)

\* manifest.ts loadManifest: JSON.parse(fs.readFileSync(manifestPath, 'utf-8'))
loadManifest(f) ==
    IF ~readFileSync(f).ok THEN readFileSync(f)
    ELSE IF f.kind = "garbage" THEN Thrown("SyntaxError", "", "", "Unexpected token", <<>>)
    ELSE Returned(f.m)

\* manifest.ts createManifestIfMissing: the file it leaves on disk
WritesManifest_always(f) == TRUE

\* if (fs.existsSync(manifestPath)) return manifestPath;
WritesManifest(f) == f.kind = "missing"

createManifestIfMissing(name, f) ==
    IF WritesManifest(f) THEN JsonFile(DefaultManifest(SynthesizeId(name))) ELSE f

(***************************************************************************)
(* validator.ts: the schema check (Ajv, allErrors) and the semantic checks *)
(***************************************************************************)
\* tags: { minItems: 1, maxItems: 10 }
MinTags == 1
MaxTags == 10

\* pattern '^[a-z0-9-]+$'
IdPattern(s) == Len(s) > 0 /\ \A i \in DOMAIN s : InIdClass(s[i])

\* String.prototype.split('.'): the parts between the dots, in order
RECURSIVE SplitDots(_, _)
SplitDots(s, part) ==
    IF s = <<>> THEN <<part>>
    ELSE IF s[1] = "." THEN <<part>> \o SplitDots(Tail(s), <<>>)
    ELSE SplitDots(Tail(s), Append(part, s[1]))

split(s) == SplitDots(s, <<>>)

\* pattern '^[0-9]+\.[0-9]+\.[0-9]+$'
VersionPattern(s) ==
    /\ Len(split(s)) = 3
    /\ \A k \in DOMAIN split(s) :
          Len(split(s)[k]) > 0 /\ \A i \in DOMAIN split(s)[k] : IsDigit(split(s)[k][i])

\* isNaN(Number(part)) for a part made of digits and letters: '' converts to 0
IsNaNPart(part) == \E i \in DOMAIN part : ~IsDigit(part[i])

\* the errors Ajv reports, as <<keyword, property>>: the missing required
\* properties in the order of the schema's required list, then the
\* properties that are present and malformed
RECURSIVE MissingRequired(_, _)
MissingRequired(has, k) ==
    IF k > Len(RequiredFields) THEN <<>>
    ELSE (IF RequiredFields[k] \in has THEN <<>> ELSE << <<"required", RequiredFields[k]>> >>)
            \o MissingRequired(has, k + 1)

SchemaErrors(m) ==
    MissingRequired(m.has, 1)
      \o (IF "schema" \in m.has /\ m.schema # SchemaUrl
          THEN << <<"const", "schema">> >> ELSE <<>>)
      \o (IF "id" \in m.has /\ ~IdPattern(m.id)
          THEN << <<"pattern", "id">> >> ELSE <<>>)
      \o (IF "_contextmesh" \in m.has /\ ~VersionPattern(m.version)
          THEN << <<"pattern", "version">> >> ELSE <<>>)
      \o (IF "_contextmesh" \in m.has /\ Len(m.tags) < MinTags
          THEN << <<"minItems", "tags">> >> ELSE <<>>)
      \o (IF "_contextmesh" \in m.has /\ Len(m.tags) > MaxTags
          THEN << <<"maxItems", "tags">> >> ELSE <<>>)
      \o (IF "_contextmesh" \in m.has /\ \E i \in DOMAIN m.tags : ~IdPattern(m.tags[i])
          THEN << <<"pattern", "tags">> >> ELSE <<>>)
      \o (IF "_contextmesh" \in m.has /\ m.language \notin Languages
          THEN << <<"enum", "language">> >> ELSE <<>>)
      \o (IF "_contextmesh" \in m.has /\ m.repoHost = ""
          THEN << <<"format", "repo">> >> ELSE <<>>)

\* Array.prototype.indexOf: the first position of x in s
indexOf(s, x) == CHOOSE i \in DOMAIN s : s[i] = x /\ \A j \in 1..(i - 1) : s[j] # x

\* the names whose position is the second occurrence of the name
RECURSIVE Duplicates_once(_, _)
Duplicates_once(toolNames, i) ==
    IF i > Len(toolNames) THEN <<>>
    ELSE (IF Cardinality({ j \in 1..(i - 1) : toolNames[j] = toolNames[i] }) = 1
          THEN <<toolNames[i]>> ELSE <<>>)
            \o Duplicates_once(toolNames, i + 1)

\* toolNames.filter((name, index) => toolNames.indexOf(name) !== index), from position i on
RECURSIVE Duplicates(_, _)
Duplicates(toolNames, i) ==
    IF i > Len(toolNames) THEN <<>>
    ELSE (IF indexOf(toolNames, toolNames[i]) # i THEN <<toolNames[i]>> ELSE <<>>)
            \o Duplicates(toolNames, i + 1)

\* performSemanticValidation(manifest): throws a plain Error or returns
performSemanticValidation(m) ==
    IF "tools" \notin m.has \/ Len(m.tools) = 0
    THEN Thrown("Error", "", "", "Connector must define at least one tool", <<>>)
    ELSE IF Len(Duplicates(m.tools, 1)) > 0
    THEN Thrown("Error", "", "", "Duplicate tool names found", Duplicates(m.tools, 1))
    ELSE IF "_contextmesh" \notin m.has
    THEN Thrown("Error", "", "", "Missing _contextmesh metadata section", <<>>)
    ELSE IF Len(split(m.version)) # 3 \/ \E k \in DOMAIN split(m.version) : IsNaNPart(split(m.version)[k])
    THEN Thrown("Error", "", "", "Invalid version format", <<>>)
    ELSE Returned(m)

\* the reads of the file one validateManifest call makes: readFileSync for the
\* raw content, then loadManifest's own readFileSync unless the first one threw
ManifestReads(f) == IF readFileSync(f).ok THEN 2 ELSE 1

\* the semantic checks first, the schema check after them
validateManifest_semanticFirst(f) ==
    IF ~readFileSync(f).ok THEN readFileSync(f)
    ELSE IF ~loadManifest(f).ok THEN loadManifest(f)
    ELSE IF ~performSemanticValidation(f.m).ok THEN performSemanticValidation(f.m)
    ELSE IF Len(SchemaErrors(f.m)) > 0
    THEN Thrown("Error", "", "", "Manifest validation failed", <<>>)
    ELSE Returned(f.m)

\* validateManifest(manifestPath): readFileSync, loadManifest, the schema
\* check (throw new Error('Manifest validation failed')), the semantic checks
validateManifest(f) ==
    IF ~readFileSync(f).ok THEN readFileSync(f)
    ELSE IF ~loadManifest(f).ok THEN loadManifest(f)
    ELSE IF Len(SchemaErrors(f.m)) > 0
    THEN Thrown("Error", "", "", "Manifest validation failed", <<>>)
    ELSE performSemanticValidation(f.m)

(***************************************************************************)
(* publisher.ts createZipArchive: which files become archive entries.      *)
(* A path is a sequence of segments; a segment is a sequence of tokens     *)
(* ("a.log" is <<"a", ".log">>); in a pattern the token "*" stands for any *)
(* run of tokens and the segment <<"**">> for any run of segments.         *)
(***************************************************************************)
GlobStar == <<"**">>

\* the ignore option of glob.sync('**/*', { cwd, ignore, dot: true, nodir: true })
IgnorePatterns ==
    { << <<"node_modules">>, GlobStar >>,
      << <<".git">>, GlobStar >>,
      << <<"*", ".log">> >>,
      << <<".DS_Store">> >>,
      << <<"Thumbs.db">> >>,
      << <<".contextmesh-publish", ".zip">> >>,
      << <<"dist">>, GlobStar >>,
      << <<"build">>, GlobStar >>,
      << <<".env", "*">> >>,
      << <<"*", ".tmp">> >>,
      << <<"*", ".temp">> >> }

\* minimatch of one segment against one pattern segment
RECURSIVE MatchSegment(_, _)
MatchSegment(p, s) ==
    IF p = <<>> THEN s = <<>>
    ELSE IF p[1] = "*"
    THEN MatchSegment(Tail(p), s) \/ (s # <<>> /\ MatchSegment(p, Tail(s)))
    ELSE s # <<>> /\ s[1] = p[1] /\ MatchSegment(Tail(p), Tail(s))

\* minimatch of a relative path against a pattern: the pattern is anchored
\* at the directory's root (no matchBase)
RECURSIVE MatchPath(_, _)
MatchPath(p, path) ==
    IF p = <<>> THEN path = <<>>
    ELSE IF p[1] = GlobStar
    THEN MatchPath(Tail(p), path) \/ (path # <<>> /\ MatchPath(p, Tail(path)))
    ELSE path # <<>> /\ MatchSegment(p[1], path[1]) /\ MatchPath(Tail(p), Tail(path))

Ignored(path) == \E p \in IgnorePatterns : MatchPath(p, path)

\* the archive's own output file, created in the directory before the glob runs
ZipPath == << <<".contextmesh-publish", ".zip">> >>

\* files.forEach(file => archive.file(path.join(directory, file), { name: file }))
createZipArchive(files) == { f \in files \cup {ZipPath} : ~Ignored(f) }

(***************************************************************************)
(* withRetry: the pure parts of the catch block                            *)
(***************************************************************************)
RECURSIVE Pow(_, _)
Pow(b, n) == IF n <= 0 THEN 1 ELSE b * Pow(b, n - 1)

Min(a, b) == IF a < b THEN a ELSE b

\* const isRetryable = error instanceof NetworkError && error.isRetryable()
IsRetryableError_classOnly(e) == e.cls = "NetworkError"

IsRetryableError(e) == e.cls = "NetworkError" /\ isRetryable(e)

\* if (!isRetryable || attempt === maxAttempts) throw error
ShouldThrow_offByOne(e, att, maxAtt) == ~IsRetryableError(e) \/ att + 1 >= maxAtt

ShouldThrow(e, att, maxAtt) == ~IsRetryableError(e) \/ att = maxAtt

\* let delay = baseDelay * Math.pow(factor, attempt - 1)
BackoffDelay(o, att) == o.baseDelay * Pow(o.factor, att - 1)

\* if (error instanceof NetworkError && error.getRetryDelay) delay = error.getRetryDelay() * 1000
\* (getRetryDelay is a method of every NetworkError, so the test is true for each of them)
HintedDelay_ignoreHint(e, o, att) == BackoffDelay(o, att)

HintedDelay(e, o, att) ==
    IF e.cls = "NetworkError" THEN getRetryDelay(e) * 1000 ELSE BackoffDelay(o, att)

\* delay = Math.min(delay, maxDelay)
RetryDelay_noCap(e, o, att) == HintedDelay(e, o, att)

RetryDelay(e, o, att) == Min(HintedDelay(e, o, att), o.maxDelay)

(***************************************************************************)
(* State                                                                   *)
(***************************************************************************)
VARIABLES
    caller,      \* who called withRetry: "none", "test" or "publish"
    rpc,         \* withRetry: "idle", "awaitFn", "sleeping", "returned", "threw"
    opts,        \* withRetry: the destructured options
    attempt,     \* withRetry: loop variable attempt
    calls,       \* number of invocations of fn so far
    raised,      \* the errors fn has raised, in order
    lastError,   \* withRetry: lastError
    thrown,      \* the error withRetry rejected with
    onRetryLog,  \* the calls of onRetry: [attempt, error, delay]
    sleeps,      \* the delays passed to sleep, in order
    nextId,      \* identity of the next error object created
    ppc,         \* publishConnector: "idle", "packing", "creating", "putting",
                 \*   "unlinkOnSuccess", "unlinkOnError", "done"
    zipExists,   \* <directory>/.contextmesh-publish.zip exists on disk
    postCalls,   \* metadata POST requests issued
    putCalls,    \* artifact PUT requests issued
    postOk,      \* a metadata POST has succeeded
    uploadUrl,   \* the POST response carried upload_url
    netError,    \* the error uploadToRegistry threw (NoError: none)
    pending,     \* the error publishConnector holds while it cleans up
    outcome      \* how publishConnector completed: [kind, err, uploadUrl]

VARIABLES
    cpc,          \* publish command: "idle", "scaffolded", "validated", "publishing", "exited"
    dryRun,       \* options.dryRun
    cmdToken,     \* options.token of the publishConnector call
    validated,    \* validateManifest returned a manifest to the command
    cmdError,     \* the error the command's catch block caught (NoError: none)
    handlerCalls, \* calls of handleError(error, verbose)
    exitCode,     \* process exit code (NoExit: the process has not ended)
    dirName,      \* basename of the connector directory
    manifestFile, \* <directory>/connector.mcp.json on disk
    writes,       \* writeFileSync calls on the manifest path
    unit,         \* the function a unit caller called: "none" or its name
    uin,          \* the argument of that call
    uout,         \* what the call returned or threw
    createCalls   \* calls of createManifestIfMissing by the unit caller

VARIABLES
    snapshot,     \* the manifest validateManifest returned to the command
    posted,       \* the manifest publishConnector loaded: the one the POST carries
    reads,        \* reads of the manifest file (readFileSync calls on its path)
    checksum,     \* createZipArchive has resolved with the archive's checksum
    edits         \* changes another process has made to the manifest file

VARIABLES
    zipFile,      \* two concurrent calls: what is at <directory>/.contextmesh-publish.zip
    race          \* two concurrent calls: each call's position, checksum, upload, result

retryVars == <<rpc, opts, attempt, calls, raised, lastError, thrown, onRetryLog, sleeps>>

publishVars == <<ppc, zipExists, postCalls, putCalls, postOk, uploadUrl, netError, pending, outcome>>

cmdVars == <<cpc, dryRun, cmdToken, validated, cmdError, handlerCalls, exitCode, snapshot>>

\* the publisher's manifest and checksum, and the reads of the manifest file
loadVars == <<posted, reads, checksum>>

diskVars == <<dirName, manifestFile, writes, edits>>

unitVars == <<unit, uin, uout, createCalls>>

raceVars == <<zipFile, race>>

\* the state withRetry and publishConnector do not touch
extVars == <<cmdVars, diskVars, unitVars, loadVars, raceVars>>

vars == <<caller, retryVars, nextId, publishVars, cmdVars, diskVars, unitVars, loadVars, raceVars>>

(***************************************************************************)
(* Inputs                                                                  *)
(***************************************************************************)
MaxAttemptsChoices == (-1) .. MaxAttemptsBound

BaseDelayChoices == {500, DefaultBaseDelay, 10000}

FactorChoices == {1, DefaultFactor, 10}

MaxDelayChoices == {5000, DefaultMaxDelay}

\* the options objects the test caller passes
TestOptions ==
    [maxAttempts : MaxAttemptsChoices, baseDelay : BaseDelayChoices,
     maxDelay : MaxDelayChoices, factor : FactorChoices, hasOnRetry : BOOLEAN]

\* uploadToRegistry's options: { maxAttempts: 3, onRetry }, the rest defaulted
PublishRetryOptions ==
    [maxAttempts |-> PublishMaxAttempts, baseDelay |-> DefaultBaseDelay,
     maxDelay |-> DefaultMaxDelay, factor |-> DefaultFactor, hasOnRetry |-> TRUE]

NoOptions ==
    [maxAttempts |-> 0, baseDelay |-> 0, maxDelay |-> 0, factor |-> 0, hasOnRetry |-> FALSE]

\* retryAfter details the test caller gives a NetworkError: undefined, 10, 60
HintChoices == {<<FALSE, 0>>, <<TRUE, 10>>, <<TRUE, 60>>}

\* HTTP statuses and connection codes of a failed axios request
StatusChoices == {400, 401, 403, 404, 409, 413, 422, 429, 500, 501, 502, 503, 504}

CodeChoices == {"ECONNREFUSED", "ENOTFOUND", "ETIMEDOUT", "ECONNABORTED", "ECONNRESET", "ERR_NETWORK"}

\* retry-after header texts of a 429 response (<<>>: header absent)
HeaderChoices == {<<>>, <<"1", "0">>, <<"1", "2", "0">>, <<"s", "o", "o", "n">>}

\* what a failed axios request looks like: <<status, code, header>>
AxiosFailures ==
    { <<s, "ERR_BAD_REQUEST", <<>> >> : s \in StatusChoices \ {429} }
      \cup { <<429, "ERR_BAD_REQUEST", h>> : h \in HeaderChoices }
      \cup { <<0, c, <<>> >> : c \in CodeChoices }

\* process exit code while the process runs
NoExit == -1

NoOutcome == [kind |-> "none", err |-> NoError, uploadUrl |-> FALSE]

(***************************************************************************)
(* Inputs of the manifest functions, of fromAxiosError and of the packer   *)
(***************************************************************************)
RECURSIVE SeqsUpTo(_, _)
SeqsUpTo(S, n) ==
    IF n = 0 THEN {<<>>}
    ELSE SeqsUpTo(S, n - 1) \cup { Append(q, x) : q \in SeqsUpTo(S, n - 1), x \in S }

NameChars == {"a", "M", "_", "@", "1", "-"}

DirNames == SeqsUpTo(NameChars, MaxNameLen) \ {<<>>}

\* the directory the command and the manifest tests work in
ConnectorDir == <<"M", "y", "_", "a">>

ToolLists == SeqsUpTo({"t", "u"}, MaxTools)

SchemaChoices == {SchemaUrl, "https://mcp.dev/schema/2.0"}

IdChoices == {<<"a", "-", "1">>, <<"M", "y", "_", "a">>}

VersionChoices ==
    { <<"0", ".", "1", ".", "0">>, <<"1", ".", "0">>,
      <<"1", ".", "x", ".", "0">>, <<"1", ".", ".", "0">> }

Manifests ==
    { Manifest(h, s, i, t, v) :
        h \in SUBSET Range(RequiredFields), s \in SchemaChoices, i \in IdChoices,
        t \in ToolLists, v \in VersionChoices }

Files == {MissingFile, UnreadableFile, GarbageFile} \cup { JsonFile(m) : m \in Manifests }

\* a manifest a developer wrote before: not the default one
ExistingManifest ==
    Manifest(Range(RequiredFields), SchemaUrl, <<"a", "-", "1">>, <<"t", "u">>,
             <<"1", ".", "0", ".", "0">>)

\* the manifest files the publish command meets
CommandFiles ==
    { MissingFile, GarbageFile, JsonFile(ExistingManifest),
      JsonFile(Manifest({"schema", "id", "tools"}, SchemaUrl, <<"a", "-", "1">>, <<"t">>,
                        <<"1", ".", "0", ".", "0">>)),
      JsonFile(Manifest(Range(RequiredFields), SchemaUrl, <<"a", "-", "1">>, <<"t", "t">>,
                        <<"1", ".", "0", ".", "0">>)) }

\* every failed axios request fromAxiosError can be given
AxiosErrors ==
    [status : StatusChoices \cup {0}, code : CodeChoices \cup {"ERR_BAD_REQUEST"},
     header : HeaderChoices]

\* directories above a file, file names, and the relative paths they make
DirSegments == { <<"src">>, <<"node_modules">>, <<"dist">> }

FileSegments == { <<"index", ".js">>, <<"a", ".log">>, <<".env", ".local">>, <<"Thumbs.db">> }

Paths == { Append(d, f) : d \in SeqsUpTo(DirSegments, MaxDepth), f \in FileSegments }

\* the files of a connector directory: none, one or two
Directories == { {a, b} : a \in Paths, b \in Paths } \cup { {} }

\* two concurrent publishConnector calls on one directory
Calls == {1, 2}

\* what is at the archive's path: nothing; the output of call p's archiver,
\* still being written or finalized; or the writes of two archivers on one file
NoZip == [kind |-> "none", by |-> 0]

Partial(p) == [kind |-> "partial", by |-> p]

Complete(p) == [kind |-> "complete", by |-> p]

Mixed == [kind |-> "mixed", by |-> 0]

NotRead == [kind |-> "notRead", by |-> 0]

\* a call that has not started
NoRun == [pc |-> "idle", packed |-> NotRead, sum |-> 0, put |-> NotRead, result |-> "none"]

\* options.token: undefined (no --token and no CONTEXTMESH_TOKEN), or a string
Undefined == [defined |-> FALSE, text |-> <<>>]

Token(text) == [defined |-> TRUE, text |-> text]

TokenChoices == {Undefined, Token(<<>>), Token(<<"t">>)}

\* error.message texts
Messages ==
    { <<"b", "o", "o", "m">>,
      <<"I", "N", "V", "A", "L", "I", "D">>,
      <<"V", "a", "l", "i", "d", "a", "t", "i", "o", "n">>,
      <<"n", "o", " ", "T", "o", "k", "e", "n">>,
      <<"a", "u", "t", "h", "o", "r">>,
      <<"i", "n", "v", "a", "l", "i", "d", " ", "t", "o", "k", "e", "n">> }

\* the errors handed to handleError: instances of the taxonomy classes (kind is
\* their code), and other Errors (axios's, Node's with a code, plain ones)
TaxonomyErrors ==
    { [cls |-> c[1], kind |-> c[2], isAxiosError |-> FALSE, code |-> "", message |-> m] :
        c \in { <<"AuthenticationError", "AUTH_ERROR">>, <<"ValidationError", "VALIDATION_ERROR">>,
                <<"NetworkError", "NETWORK_ERROR">>, <<"FileSystemError", "FILESYSTEM_ERROR">> },
        m \in { <<"b", "o", "o", "m">> } }

OtherErrors ==
    [cls : {"Error"}, kind : {""}, isAxiosError : BOOLEAN,
     code : {"", "ENOENT", "EROFS", "EPERM"}, message : Messages]

NoCall == [fn |-> "none", arg |-> <<>>]

NoResult == [ok |-> TRUE, value |-> <<>>, err |-> NoThrown]

\* nothing is running: no withRetry call, no publishConnector call, no command
Idle ==
    /\ caller = "none"
    /\ rpc = "idle"
    /\ opts = NoOptions
    /\ attempt = 0
    /\ calls = 0
    /\ raised = <<>>
    /\ lastError = NoError
    /\ thrown = NoError
    /\ onRetryLog = <<>>
    /\ sleeps = <<>>
    /\ nextId = 1
    /\ ppc = "idle"
    /\ zipExists = FALSE
    /\ postCalls = 0
    /\ putCalls = 0
    /\ postOk = FALSE
    /\ uploadUrl = FALSE
    /\ netError = NoError
    /\ pending = NoError
    /\ outcome = NoOutcome
    /\ cpc = "idle"
    /\ dryRun = FALSE
    /\ cmdToken = Undefined
    /\ validated = FALSE
    /\ cmdError = NoError
    /\ handlerCalls = 0
    /\ exitCode = NoExit
    /\ writes = 0
    /\ unit = "none"
    /\ uout = NoResult
    /\ createCalls = 0
    /\ snapshot = NoManifest
    /\ posted = NoManifest
    /\ reads = 0
    /\ checksum = FALSE
    /\ edits = 0
    /\ zipFile = NoZip
    /\ race = [p \in Calls |-> NoRun]

Init ==
    /\ Idle
    /\ dirName = ConnectorDir
    /\ manifestFile \in CommandFiles
    /\ uin = NoCall

(***************************************************************************)
(* withRetry                                                               *)
(***************************************************************************)
\* the observer called twice for one failed attempt
CallOnRetry_twice(log, o, att, e, delay) ==
    IF o.hasOnRetry
    THEN log \o << [attempt |-> att, error |-> e, delay |-> delay],
                   [attempt |-> att, error |-> e, delay |-> delay] >>
    ELSE log

\* if (onRetry) { onRetry(attempt, error, delay); }
CallOnRetry(log, o, att, e, delay) ==
    IF o.hasOnRetry
    THEN Append(log, [attempt |-> att, error |-> e, delay |-> delay])
    ELSE log

\* a loop that tests after its first iteration
LoopTest_doWhile(att, maxAttempts) == att = 1 \/ att <= maxAttempts

\* for (let attempt = 1; attempt <= maxAttempts; attempt++)
LoopTest(att, maxAttempts) == att <= maxAttempts

\* withRetry(fn, options) up to its first await: the loop test and fn()
\* (with maxAttempts < 1 the loop body never runs: throw lastError || new Error('Retry failed'))
EnterWithRetry(o) ==
    /\ opts' = o
    /\ attempt' = 1
    /\ raised' = <<>>
    /\ lastError' = NoError
    /\ onRetryLog' = <<>>
    /\ sleeps' = <<>>
    /\ IF LoopTest(1, o.maxAttempts)
       THEN /\ rpc' = "awaitFn"
            /\ calls' = 1
            /\ thrown' = NoError
       ELSE /\ rpc' = "threw"
            /\ calls' = 0
            /\ thrown' = NewGenericError(nextId, "Retry failed")

\* return await fn()  -- fn resolved
ReturnFromFn ==
    /\ rpc' = "returned"
    /\ UNCHANGED <<opts, attempt, calls, raised, lastError, thrown, onRetryLog, sleeps>>

\* catch (error) { ... }  -- fn rejected with e
CatchBlock(e) ==
    /\ raised' = Append(raised, e)
    /\ lastError' = e
    /\ UNCHANGED <<opts, attempt, calls>>
    /\ IF ShouldThrow(e, attempt, opts.maxAttempts)
       THEN /\ rpc' = "threw"
            /\ thrown' = e
            /\ UNCHANGED <<onRetryLog, sleeps>>
       ELSE LET delay == RetryDelay(e, opts, attempt)
            IN  /\ rpc' = "sleeping"
                /\ thrown' = NoError
                /\ onRetryLog' = CallOnRetry(onRetryLog, opts, attempt, e, delay)
                /\ sleeps' = Append(sleeps, delay)

\* the sleep timer fires: attempt++, the loop test, fn() again
SleepElapsed ==
    /\ UNCHANGED extVars
    /\ rpc = "sleeping"
    /\ attempt' = attempt + 1
    /\ IF LoopTest(attempt + 1, opts.maxAttempts)
       THEN /\ rpc' = "awaitFn"
            /\ calls' = calls + 1
            /\ thrown' = NoError
       ELSE /\ rpc' = "threw"
            /\ calls' = calls
            /\ thrown' = lastError
    /\ UNCHANGED <<caller, opts, raised, lastError, onRetryLog, sleeps, nextId, publishVars>>

(***************************************************************************)
(* The test caller: withRetry(fn, options) with an arbitrary operation     *)
(***************************************************************************)
CallWithRetry(o) ==
    /\ UNCHANGED extVars
    /\ caller = "none"
    /\ caller' = "test"
    /\ EnterWithRetry(o)
    /\ nextId' = nextId + 1
    /\ UNCHANGED publishVars

FnResolve ==
    /\ UNCHANGED extVars
    /\ caller = "test"
    /\ rpc = "awaitFn"
    /\ ReturnFromFn
    /\ UNCHANGED <<caller, nextId, publishVars>>

\* fn rejects with a NetworkError built by the caller
FnRejectNetworkError(retryable, hint) ==
    /\ UNCHANGED extVars
    /\ caller = "test"
    /\ rpc = "awaitFn"
    /\ CatchBlock(NewNetworkError(nextId, retryable, hint[1], hint[2], 0))
    /\ nextId' = nextId + 1
    /\ UNCHANGED <<caller, publishVars>>

\* fn rejects with an error that is not a NetworkError
FnRejectOther ==
    /\ UNCHANGED extVars
    /\ caller = "test"
    /\ rpc = "awaitFn"
    /\ CatchBlock(NewGenericError(nextId, "Generic error"))
    /\ nextId' = nextId + 1
    /\ UNCHANGED <<caller, publishVars>>

(***************************************************************************)
(* publishConnector / createZipArchive / uploadToRegistry                  *)
(***************************************************************************)
\* if (upload_url) { ... await axios.put(upload_url, fileStream, ...) }
PutIssued_always(hasUrl) == TRUE

PutIssued(hasUrl) == hasUrl

\* uploadToRegistry, catch: an axios error becomes NetworkError.fromAxiosError,
\* any other error is re-thrown as it is
UploadCatch(id, e) == IF e.cls = "AxiosError" THEN fromAxiosError(id, e) ELSE e

\* publishConnector, try: uploadToRegistry returned the result;
\* if (existsSync(zipPath)) await fs.unlink(zipPath); return result
AfterUploadReturned(hasUrl) ==
    /\ netError' = NoError
    /\ pending' = NoError
    /\ UNCHANGED zipExists
    /\ IF zipExists
       THEN /\ ppc' = "unlinkOnSuccess"
            /\ outcome' = [kind |-> "none", err |-> NoError, uploadUrl |-> hasUrl]
       ELSE /\ ppc' = "done"
            /\ outcome' = [kind |-> "returned", err |-> NoError, uploadUrl |-> hasUrl]

\* publishConnector, catch (error): uploadToRegistry threw e;
\* if (existsSync(zipPath)) await fs.unlink(zipPath); throw error
AfterUploadThrew(e) ==
    /\ netError' = e
    /\ UNCHANGED zipExists
    /\ IF zipExists
       THEN /\ ppc' = "unlinkOnError"
            /\ pending' = e
            /\ outcome' = NoOutcome
       ELSE /\ ppc' = "done"
            /\ pending' = NoError
            /\ outcome' = [kind |-> "threw", err |-> e, uploadUrl |-> FALSE]

\* publishConnector(options) up to `await createZipArchive`: the token test,
\* loadManifest (readFileSync + JSON.parse) and the executor of createZipArchive
\* (createWriteStream(outputPath), glob.sync, archive.file, archive.finalize)
\* the empty string passes for a token
Truthy_emptyOk(token) == token.defined

\* JavaScript truthiness of options.token: `!token` holds of undefined and of ''
Truthy(token) == token.defined /\ Len(token.text) > 0

publishConnector(token) ==
    /\ nextId' = nextId + 1
    /\ UNCHANGED checksum
    /\ UNCHANGED <<retryVars, postCalls, putCalls, postOk, uploadUrl, netError, pending>>
    /\ IF ~Truthy(token)
       THEN /\ ppc' = "done"
            /\ outcome' = [kind |-> "threw", err |-> MissingTokenError(nextId), uploadUrl |-> FALSE]
            /\ UNCHANGED <<zipExists, posted, reads>>
       ELSE IF ~loadManifest(manifestFile).ok
       THEN /\ ppc' = "done"
            /\ outcome' = [kind |-> "threw", err |-> AsError(nextId, loadManifest(manifestFile).err),
                           uploadUrl |-> FALSE]
            /\ reads' = reads + 1
            /\ UNCHANGED <<zipExists, posted>>
       ELSE /\ ppc' = "packing"
            /\ outcome' = NoOutcome
            /\ posted' = loadManifest(manifestFile).value
            /\ reads' = reads + 1
            /\ zipExists' = TRUE

\* a caller other than the command calls publishConnector
PublishConnector(token) ==
    /\ UNCHANGED <<cpc, dryRun, validated, cmdError, handlerCalls, exitCode, snapshot>>
    /\ UNCHANGED <<diskVars, unitVars, raceVars>>
    /\ caller = "none"
    /\ caller' = "publish"
    /\ cmdToken' = token
    /\ publishConnector(token)

\* createZipArchive: archive.on('error') -> reject(FileSystemError.cannotCreateZip);
\* the await is outside publishConnector's try, so the call throws at once
ArchiveError ==
    /\ UNCHANGED extVars
    /\ ppc = "packing"
    /\ ppc' = "done"
    /\ outcome' = [kind |-> "threw", err |-> CannotCreateZipError(nextId), uploadUrl |-> FALSE]
    /\ nextId' = nextId + 1
    /\ UNCHANGED <<caller, retryVars, zipExists, postCalls, putCalls, postOk, uploadUrl, netError, pending>>

\* createZipArchive: output.on('close') -> resolve(checksum); publishConnector
\* enters its try and uploadToRegistry calls withRetry(fn, { maxAttempts: 3, onRetry })
ArchiveClose ==
    /\ UNCHANGED <<cmdVars, diskVars, unitVars, raceVars, posted, reads>>
    /\ checksum' = TRUE
    /\ ppc = "packing"
    /\ ppc' = "creating"
    /\ EnterWithRetry(PublishRetryOptions)
    /\ nextId' = nextId + 1
    /\ UNCHANGED <<caller, zipExists, postCalls, putCalls, postOk, uploadUrl, netError, pending, outcome>>

\* fn: loadReadme's fs.readFile rejects, so axios.post is never called
ReadmeReject(code) ==
    /\ UNCHANGED extVars
    /\ ppc = "creating"
    /\ rpc = "awaitFn"
    /\ LET e == NewNodeError(nextId, code)
       IN  /\ CatchBlock(e)
           /\ IF ShouldThrow(e, attempt, opts.maxAttempts)
              THEN AfterUploadThrew(UploadCatch(nextId + 1, e))
              ELSE UNCHANGED <<ppc, zipExists, netError, pending, outcome>>
    /\ nextId' = nextId + 2
    /\ UNCHANGED <<caller, postCalls, putCalls, postOk, uploadUrl>>

\* fn: axios.post rejects (HTTP status outside 2xx, or no response)
PostReject(f) ==
    /\ UNCHANGED extVars
    /\ ppc = "creating"
    /\ rpc = "awaitFn"
    /\ postCalls' = postCalls + 1
    /\ LET e == NewAxiosError(nextId, f[1], f[2], f[3])
       IN  /\ CatchBlock(e)
           /\ IF ShouldThrow(e, attempt, opts.maxAttempts)
              THEN AfterUploadThrew(UploadCatch(nextId + 1, e))
              ELSE UNCHANGED <<ppc, zipExists, netError, pending, outcome>>
    /\ nextId' = nextId + 2
    /\ UNCHANGED <<caller, putCalls, postOk, uploadUrl>>

\* fn: axios.post resolves; withRetry returns the response and uploadToRegistry
\* goes on: const { id, version, upload_url } = createResponse.data; if (upload_url) PUT
PostResolve(hasUrl) ==
    /\ UNCHANGED extVars
    /\ ppc = "creating"
    /\ rpc = "awaitFn"
    /\ ReturnFromFn
    /\ postCalls' = postCalls + 1
    /\ postOk' = TRUE
    /\ uploadUrl' = hasUrl
    /\ IF PutIssued(hasUrl)
       THEN /\ putCalls' = putCalls + 1
            /\ ppc' = "putting"
            /\ UNCHANGED <<zipExists, netError, pending, outcome>>
       ELSE /\ putCalls' = putCalls
            /\ AfterUploadReturned(hasUrl)
    /\ UNCHANGED <<caller, nextId>>

\* axios.put resolves: uploadToRegistry returns { id, version, checksum, uploadUrl }
PutResolve ==
    /\ UNCHANGED extVars
    /\ ppc = "putting"
    /\ AfterUploadReturned(uploadUrl)
    /\ UNCHANGED <<caller, retryVars, nextId, postCalls, putCalls, postOk, uploadUrl>>

\* axios.put rejects: caught by uploadToRegistry's catch, no second PUT
PutReject(f) ==
    /\ UNCHANGED extVars
    /\ ppc = "putting"
    /\ AfterUploadThrew(UploadCatch(nextId + 1, NewAxiosError(nextId, f[1], f[2], f[3])))
    /\ nextId' = nextId + 2
    /\ UNCHANGED <<caller, retryVars, postCalls, putCalls, postOk, uploadUrl>>

\* await fs.unlink(zipPath) resolves, on either path
UnlinkResolve ==
    /\ UNCHANGED extVars
    /\ ppc \in {"unlinkOnSuccess", "unlinkOnError"}
    /\ zipExists' = FALSE
    /\ ppc' = "done"
    /\ pending' = NoError
    /\ outcome' = IF ppc = "unlinkOnSuccess"
                  THEN [outcome EXCEPT !.kind = "returned"]
                  ELSE [kind |-> "threw", err |-> pending, uploadUrl |-> FALSE]
    /\ UNCHANGED <<caller, retryVars, nextId, postCalls, putCalls, postOk, uploadUrl, netError>>

\* await fs.unlink(zipPath) rejects.  Inside the try the rejection is caught by
\* publishConnector's own catch, which tests existsSync and unlinks once more;
\* inside the catch it replaces the error being propagated.
UnlinkReject(code) ==
    /\ UNCHANGED extVars
    /\ ppc \in {"unlinkOnSuccess", "unlinkOnError"}
    /\ nextId' = nextId + 1
    /\ UNCHANGED <<caller, retryVars, zipExists, postCalls, putCalls, postOk, uploadUrl, netError>>
    /\ LET u == NewNodeError(nextId, code)
       IN  IF ppc = "unlinkOnSuccess" /\ zipExists
           THEN /\ ppc' = "unlinkOnError"
                /\ pending' = u
                /\ outcome' = NoOutcome
           ELSE /\ ppc' = "done"
                /\ pending' = NoError
                /\ outcome' = [kind |-> "threw", err |-> u, uploadUrl |-> FALSE]

(***************************************************************************)
(* commands/publish.ts: the action of `contextmesh publish`                *)
(***************************************************************************)
\* String.prototype.includes
includes(s, sub) ==
    \E i \in 0..(Len(s) - Len(sub)) : SubSeq(s, i + 1, i + Len(sub)) = sub

\* const fsErrorCodes = [...]
FsErrorCodes == {"ENOENT", "EACCES", "EISDIR", "ENOTDIR", "ENOSPC", "EMFILE", "EEXIST", "EROFS"}

\* the words identifyAndWrapError looks for in error.message.toLowerCase()
ValidationWords ==
    { <<"v", "a", "l", "i", "d", "a", "t", "i", "o", "n">>, <<"i", "n", "v", "a", "l", "i", "d">> }

AuthWords == { <<"a", "u", "t", "h">>, <<"t", "o", "k", "e", "n">> }

\* errors/index.ts identifyAndWrapError(error): the code of the taxonomy error
\* the Error is wrapped in, "" for null
identifyAndWrapError(e) ==
    IF e.isAxiosError THEN "NETWORK_ERROR"
    ELSE IF e.code \in FsErrorCodes THEN "FILESYSTEM_ERROR"
    ELSE IF \E w \in ValidationWords : includes(toLowerCase(e.message), w) THEN "VALIDATION_ERROR"
    ELSE IF \E w \in AuthWords : includes(toLowerCase(e.message), w) THEN "AUTH_ERROR"
    ELSE ""

\* handleError's formattedError: the kind of the error whose format() is
\* printed, "Error" for the plain `Error: <message>` line
FormattedAs(e) ==
    IF e.kind # "" THEN e.kind
    ELSE IF identifyAndWrapError(e) # "" THEN identifyAndWrapError(e)
    ELSE "Error"

\* the exit code follows the kind the error is displayed as
handleError_byDisplayedKind(e) ==
    CASE FormattedAs(e) = "AUTH_ERROR" -> 2
      [] FormattedAs(e) = "VALIDATION_ERROR" -> 3
      [] FormattedAs(e) = "NETWORK_ERROR" -> 4
      [] FormattedAs(e) = "FILESYSTEM_ERROR" -> 5
      [] OTHER -> 1

\* errors/index.ts handleError(error, verbose): the code it exits with
\* (an error outside the taxonomy is wrapped for display, its exit code stays 1)
handleError(e) ==
    CASE e.kind = "AUTH_ERROR" -> 2
      [] e.kind = "VALIDATION_ERROR" -> 3
      [] e.kind = "NETWORK_ERROR" -> 4
      [] e.kind = "FILESYSTEM_ERROR" -> 5
      [] OTHER -> 1

\* whether the command returns before publishConnector
SkipsPublish_never(dry) == FALSE

\* if (options.dryRun) { ...; return; }
SkipsPublish(dry) == dry

\* `await validateManifest(manifestPath)` rejected: control passes to the catch block
Rejects_never(ok) == FALSE

Rejects(ok) == ~ok

\* the catch block: console.error(...); process.exit(1)
CommandCatch(e) ==
    /\ cmdError' = e
    /\ exitCode' = 1
    /\ cpc' = "exited"
    /\ UNCHANGED handlerCalls

\* the action up to `await validateManifest(manifestPath)`:
\* createManifestIfMissing(directory) (writeFileSync fails with EACCES in a
\* directory that is not writable) and the body of validateManifest
PublishCommand(dry, tok, writable) ==
    /\ UNCHANGED raceVars
    /\ caller = "none"
    /\ caller' = "command"
    /\ dryRun' = dry
    /\ cmdToken' = tok
    /\ nextId' = nextId + 1
    /\ UNCHANGED <<retryVars, publishVars, unitVars, dirName, edits, posted, checksum,
                   handlerCalls, exitCode>>
    /\ IF WritesManifest(manifestFile) /\ ~writable
       THEN /\ cpc' = "scaffoldFailed"
            /\ cmdError' = NewNodeError(nextId, "EACCES")
            /\ validated' = FALSE
            /\ UNCHANGED <<manifestFile, writes, snapshot, reads>>
       ELSE /\ cpc' = "validating"
            /\ manifestFile' = createManifestIfMissing(dirName, manifestFile)
            /\ writes' = IF WritesManifest(manifestFile) THEN writes + 1 ELSE writes
            /\ validated' = validateManifest(manifestFile').ok
            /\ snapshot' = IF validateManifest(manifestFile').ok
                           THEN validateManifest(manifestFile').value
                           ELSE NoManifest
            /\ reads' = reads + ManifestReads(manifestFile')
            /\ cmdError' = IF validateManifest(manifestFile').ok
                           THEN NoError
                           ELSE AsError(nextId, validateManifest(manifestFile').err)

\* createManifestIfMissing threw: the catch block
CommandScaffoldFailed ==
    /\ UNCHANGED raceVars
    /\ cpc = "scaffoldFailed"
    /\ CommandCatch(cmdError)
    /\ UNCHANGED <<caller, retryVars, nextId, publishVars, diskVars, unitVars, loadVars,
                   dryRun, cmdToken, validated, snapshot>>

\* validateManifest settled: the catch block, or the dry-run return (the
\* process then ends with code 0), or publishConnector up to its first await
CommandValidated ==
    /\ UNCHANGED raceVars
    /\ cpc = "validating"
    /\ UNCHANGED <<caller, diskVars, unitVars, dryRun, cmdToken, validated, snapshot>>
    /\ IF Rejects(validated)
       THEN /\ CommandCatch(cmdError)
            /\ UNCHANGED <<retryVars, nextId, publishVars, loadVars>>
       ELSE IF SkipsPublish(dryRun)
       THEN /\ cpc' = "exited"
            /\ exitCode' = 0
            /\ UNCHANGED <<retryVars, nextId, publishVars, loadVars, cmdError, handlerCalls>>
       ELSE /\ cpc' = "publishing"
            /\ publishConnector(cmdToken)
            /\ UNCHANGED <<cmdError, handlerCalls, exitCode>>

\* another process rewrites or deletes the manifest file while the command runs
ManifestEdited(f) ==
    /\ UNCHANGED raceVars
    /\ caller = "command"
    /\ cpc \notin {"idle", "exited"}
    /\ edits < MaxEdits
    /\ f # manifestFile
    /\ manifestFile' = f
    /\ edits' = edits + 1
    /\ UNCHANGED <<caller, retryVars, nextId, publishVars, cmdVars, unitVars, loadVars,
                   dirName, writes>>

\* publishConnector settled: the success report (the process then ends with
\* code 0), or the catch block
CommandPublished ==
    /\ UNCHANGED raceVars
    /\ cpc = "publishing"
    /\ ppc = "done"
    /\ UNCHANGED <<caller, retryVars, nextId, publishVars, diskVars, unitVars, loadVars,
                   dryRun, cmdToken, validated, snapshot>>
    /\ IF outcome.kind = "threw"
       THEN CommandCatch(outcome.err)
       ELSE /\ cpc' = "exited"
            /\ exitCode' = 0
            /\ UNCHANGED <<cmdError, handlerCalls>>

(***************************************************************************)
(* Specification                                                           *)
(***************************************************************************)
Next ==
    \/ \E o \in TestOptions : CallWithRetry(o)
    \/ FnResolve
    \/ \E r \in BOOLEAN, h \in HintChoices : FnRejectNetworkError(r, h)
    \/ FnRejectOther
    \/ SleepElapsed
    \/ \E t \in TokenChoices : PublishConnector(t)
    \/ ArchiveError
    \/ ArchiveClose
    \/ \E c \in {"EACCES"} : ReadmeReject(c)
    \/ \E f \in AxiosFailures : PostReject(f)
    \/ \E u \in BOOLEAN : PostResolve(u)
    \/ PutResolve
    \/ \E f \in AxiosFailures : PutReject(f)
    \/ UnlinkResolve
    \/ \E c \in {"EPERM", "EBUSY"} : UnlinkReject(c)
    \/ \E d \in BOOLEAN, t \in TokenChoices, w \in BOOLEAN : PublishCommand(d, t, w)
    \/ CommandScaffoldFailed
    \/ CommandValidated
    \/ CommandPublished
    \/ \E f \in CommandFiles : ManifestEdited(f)

Spec == Init /\ [][Next]_vars

\* every invocation of the operation completes: the promise fn() returned settles
FnCompletes ==
    \/ FnResolve
    \/ \E r \in BOOLEAN, h \in HintChoices : FnRejectNetworkError(r, h)
    \/ FnRejectOther
    \/ \E c \in {"EACCES"} : ReadmeReject(c)
    \/ \E f \in AxiosFailures : PostReject(f)
    \/ \E u \in BOOLEAN : PostResolve(u)

\* the runs in which every invocation of the operation completes and the timer
\* of sleep(delay) fires
SpecLive == Spec /\ WF_vars(FnCompletes) /\ WF_vars(SleepElapsed)

(***************************************************************************)
(* The functions called directly, as the unit tests call them: one call    *)
(* of loadManifest, validateManifest, NetworkError.fromAxiosError or       *)
(* createZipArchive on an input, or repeated calls of                      *)
(* createManifestIfMissing on one directory.                               *)
(***************************************************************************)
Call(fn, arg) == [fn |-> fn, arg |-> arg]

InitUnits ==
    /\ Idle
    /\ \/ /\ uin = Call("createManifestIfMissing", <<>>)
          /\ dirName \in DirNames
          /\ manifestFile \in {MissingFile, GarbageFile, JsonFile(ExistingManifest)}
       \/ /\ uin \in {Call("loadManifest", <<>>), Call("validateManifest", <<>>)}
          /\ dirName = ConnectorDir
          /\ manifestFile \in Files
       \/ /\ \E ax \in AxiosErrors : uin = Call("fromAxiosError", ax)
          /\ dirName = ConnectorDir
          /\ manifestFile = MissingFile
       \/ /\ \E d \in Directories : uin = Call("createZipArchive", d)
          /\ dirName = ConnectorDir
          /\ manifestFile = JsonFile(ExistingManifest)
       \/ /\ \E e \in TaxonomyErrors \cup OtherErrors : uin = Call("handleError", e)
          /\ dirName = ConnectorDir
          /\ manifestFile = MissingFile

\* createManifestIfMissing(directory): returns the manifest path
CallCreateManifestIfMissing ==
    /\ UNCHANGED raceVars
    /\ uin.fn = "createManifestIfMissing"
    /\ createCalls < MaxCreateCalls
    /\ createCalls' = createCalls + 1
    /\ unit' = "createManifestIfMissing"
    /\ manifestFile' = createManifestIfMissing(dirName, manifestFile)
    /\ writes' = IF WritesManifest(manifestFile) THEN writes + 1 ELSE writes
    /\ uout' = [ok |-> TRUE, value |-> "connector.mcp.json", err |-> NoThrown]
    /\ UNCHANGED <<caller, retryVars, nextId, publishVars, cmdVars, loadVars, dirName, edits, uin>>

\* loadManifest(manifestPath)
CallLoadManifest ==
    /\ UNCHANGED raceVars
    /\ uin.fn = "loadManifest"
    /\ unit = "none"
    /\ unit' = "loadManifest"
    /\ uout' = loadManifest(manifestFile)
    /\ UNCHANGED <<caller, retryVars, nextId, publishVars, cmdVars, diskVars, posted, checksum, uin, createCalls>>
    /\ reads' = reads + 1

\* await validateManifest(manifestPath), called on its own or, as the publish
\* command does, after createManifestIfMissing
CallValidateManifest ==
    /\ UNCHANGED raceVars
    /\ \/ uin.fn = "validateManifest" /\ unit = "none"
       \/ uin.fn = "createManifestIfMissing" /\ unit = "createManifestIfMissing"
    /\ unit' = "validateManifest"
    /\ uout' = validateManifest(manifestFile)
    /\ UNCHANGED <<caller, retryVars, nextId, publishVars, cmdVars, diskVars, posted, checksum, uin, createCalls>>
    /\ reads' = reads + ManifestReads(manifestFile)

\* NetworkError.fromAxiosError(error)
CallFromAxiosError ==
    /\ UNCHANGED raceVars
    /\ uin.fn = "fromAxiosError"
    /\ unit = "none"
    /\ unit' = "fromAxiosError"
    /\ uout' = fromAxiosError(nextId, uin.arg)
    /\ nextId' = nextId + 1
    /\ UNCHANGED <<caller, retryVars, publishVars, cmdVars, diskVars, loadVars, uin, createCalls>>

\* createZipArchive(directory, outputPath): the entries added to the archive
CallCreateZipArchive ==
    /\ UNCHANGED raceVars
    /\ uin.fn = "createZipArchive"
    /\ unit = "none"
    /\ unit' = "createZipArchive"
    /\ uout' = createZipArchive(uin.arg)
    /\ UNCHANGED <<caller, retryVars, nextId, publishVars, cmdVars, diskVars, loadVars, uin, createCalls>>

\* handleError(error): console.error(formattedError); process.exit(exitCode)
CallHandleError ==
    /\ UNCHANGED raceVars
    /\ uin.fn = "handleError"
    /\ unit = "none"
    /\ unit' = "handleError"
    /\ uout' = Returned(FormattedAs(uin.arg))
    /\ handlerCalls' = handlerCalls + 1
    /\ exitCode' = handleError(uin.arg)
    /\ UNCHANGED <<cpc, dryRun, cmdToken, validated, cmdError, snapshot>>
    /\ UNCHANGED <<caller, retryVars, nextId, publishVars, diskVars, loadVars, uin, createCalls>>

NextUnits ==
    \/ CallCreateManifestIfMissing
    \/ CallLoadManifest
    \/ CallValidateManifest
    \/ CallFromAxiosError
    \/ CallCreateZipArchive
    \/ CallHandleError

SpecUnits == InitUnits /\ [][NextUnits]_vars

(***************************************************************************)
(* Two publishConnector calls running concurrently on one directory, each  *)
(* with a token and a loadable manifest.  Both use the path                *)
(* <directory>/.contextmesh-publish.zip.                                   *)
(***************************************************************************)
\* createWriteStream(outputPath) by call p: the file is created or truncated;
\* an archiver still writing to it keeps writing into the same file
Opened(file, p) == IF file.kind \in {"partial", "mixed"} THEN Mixed ELSE Partial(p)

\* the archive is never finalized
Finalized_never(file, p) == file

\* archive.finalize() / output 'close' of call p: its own file is complete; a
\* file that was deleted, replaced or written by two archivers stays what it is
Finalized(file, p) == IF file = Partial(p) THEN Complete(p) ELSE file

\* if (existsSync(zipPath)) { const fs = await import('fs/promises'); ... }
Cleanup(p, file, result) ==
    [race EXCEPT ![p].pc = IF file.kind # "none" THEN "unlinking" ELSE "done",
                 ![p].result = result]

InitRace ==
    /\ Idle
    /\ dirName = ConnectorDir
    /\ manifestFile = JsonFile(ExistingManifest)
    /\ uin = NoCall

\* publishConnector up to `await createZipArchive`
RaceStart(p) ==
    /\ race[p].pc = "idle"
    /\ zipFile' = Opened(zipFile, p)
    /\ race' = [race EXCEPT ![p].pc = "packing"]
    /\ UNCHANGED <<caller, retryVars, nextId, publishVars, cmdVars, diskVars, unitVars, loadVars>>

\* createZipArchive resolves with the checksum of the bytes call p's archiver emitted
RacePacked(p) ==
    /\ race[p].pc = "packing"
    /\ zipFile' = Finalized(zipFile, p)
    /\ race' = [race EXCEPT ![p].pc = "posting", ![p].packed = Finalized(zipFile, p), ![p].sum = p]
    /\ UNCHANGED <<caller, retryVars, nextId, publishVars, cmdVars, diskVars, unitVars, loadVars>>

\* the metadata POST (carrying the checksum) settles; on success
\* createReadStream(zipPath) opens what is at the path for the PUT
RacePostSettled(p, ok) ==
    /\ race[p].pc = "posting"
    /\ race' = IF ok
               THEN [race EXCEPT ![p].pc = "putting", ![p].put = zipFile]
               ELSE Cleanup(p, zipFile, "threw")
    /\ UNCHANGED <<caller, retryVars, nextId, publishVars, cmdVars, diskVars, unitVars, loadVars, zipFile>>

\* the PUT settles (it cannot succeed when there was no file to read)
RacePutSettled(p, ok) ==
    /\ race[p].pc = "putting"
    /\ ok => race[p].put.kind # "none"
    /\ race' = Cleanup(p, zipFile, IF ok THEN "returned" ELSE "threw")
    /\ UNCHANGED <<caller, retryVars, nextId, publishVars, cmdVars, diskVars, unitVars, loadVars, zipFile>>

\* await fs.unlink(zipPath): deletes whatever is at the path; rejects with
\* ENOENT when the other call has deleted it since the existsSync test
RaceUnlink(p) ==
    /\ race[p].pc = "unlinking"
    /\ zipFile' = NoZip
    /\ race' = [race EXCEPT ![p].pc = "done",
                            ![p].result = IF zipFile.kind = "none" THEN "threw" ELSE @]
    /\ UNCHANGED <<caller, retryVars, nextId, publishVars, cmdVars, diskVars, unitVars, loadVars>>

NextRace ==
    \/ \E p \in Calls : RaceStart(p)
    \/ \E p \in Calls : RacePacked(p)
    \/ \E p \in Calls, ok \in BOOLEAN : RacePostSettled(p, ok)
    \/ \E p \in Calls, ok \in BOOLEAN : RacePutSettled(p, ok)
    \/ \E p \in Calls : RaceUnlink(p)

SpecRace == InitRace /\ [][NextRace]_vars

(***************************************************************************)
(* Properties                                                              *)
(***************************************************************************)
\* e is a NetworkError whose retryable flag is set
RetryableNetworkError(e) == e.cls = "NetworkError" /\ e.retryable

\* every invocation of fn so far has failed with a retryable NetworkError
AlwaysFailedRetryably ==
    /\ Len(raised) = calls
    /\ \A i \in 1 .. Len(raised) : RetryableNetworkError(raised[i])

\* the delay the observer saw for attempt k is the delay that was waited
ObserverSaw(k, d) ==
    opts.hasOnRetry =>
        \E i \in 1 .. Len(onRetryLog) :
            /\ onRetryLog[i].attempt = k
            /\ onRetryLog[i].error = raised[k]
            /\ onRetryLog[i].delay = d

\* C1: with maxAttempts N >= 1 and an operation that fails with a retryable
\* NetworkError on every invocation, withRetry has invoked the operation
\* exactly N times when it rejects, and it rejects with the very error object
\* the last invocation raised.
C1_RetryBound ==
    (rpc = "threw" /\ opts.maxAttempts >= 1 /\ AlwaysFailedRetryably) =>
        /\ calls = opts.maxAttempts
        /\ thrown = raised[Len(raised)]
        /\ thrown.id = raised[calls].id

C1_Witness ==
    /\ rpc = "threw"
    /\ opts.maxAttempts = 3
    /\ calls = 3
    /\ AlwaysFailedRetryably
    /\ thrown = raised[3]

\* C2: when the first invocation fails with an error that is not a
\* NetworkError, or with a NetworkError that is not retryable, withRetry has
\* invoked the operation once, has not slept, has not called the observer,
\* and has rejected with that same error.
C2_NonRetryable ==
    (Len(raised) >= 1 /\ ~RetryableNetworkError(raised[1])) =>
        /\ rpc = "threw"
        /\ calls = 1
        /\ sleeps = <<>>
        /\ onRetryLog = <<>>
        /\ thrown = raised[1]

C2_Witness ==
    /\ rpc = "threw"
    /\ opts.maxAttempts >= 2
    /\ opts.hasOnRetry
    /\ calls = 1
    /\ raised[1].cls = "NetworkError"
    /\ ~raised[1].retryable
    /\ thrown = raised[1]

\* C3: in publishConnector a metadata POST that fails with a failure
\* classified retryable is re-attempted: when such a failure is surfaced by
\* uploadToRegistry, three POSTs have been issued.
C3_PostRetried ==
    (netError # NoError /\ ~postOk /\ postCalls >= 1 /\ netError.retryable) =>
        postCalls = PublishMaxAttempts

\* C4: the artifact PUT is issued at most once in a run, only after a
\* metadata POST succeeded with an upload_url, and not at all when the
\* response had no upload_url.
C4_PutAtMostOnce ==
    /\ putCalls <= 1
    /\ putCalls >= 1 => (postOk /\ uploadUrl)
    /\ (postOk /\ ~uploadUrl) => putCalls = 0

\* a PUT was issued and failed, and the run is over
C4_Witness ==
    /\ ppc = "done"
    /\ postOk /\ uploadUrl
    /\ putCalls = 1
    /\ netError # NoError
    /\ outcome.kind = "threw"

\* C5: when the network phase of publishConnector threw, the call completes
\* with the temporary archive deleted and with the network-phase error.
C5_CleanupOnNetworkFailure ==
    (ppc = "done" /\ netError # NoError) =>
        /\ ~zipExists
        /\ outcome.kind = "threw"
        /\ outcome.err = netError

\* C6: whenever publishConnector has completed, by return or by throw, the
\* temporary archive does not exist on disk.
C6_NoArchiveLeftBehind == (ppc = "done") => ~zipExists

\* the POST phase ended in an axios failure, or the PUT failed
TransportFailure ==
    \/ rpc = "threw" /\ Len(raised) >= 1 /\ raised[Len(raised)].cls = "AxiosError"
    \/ putCalls >= 1 /\ netError # NoError

\* C7: publishConnector returns a result only when the POST succeeded and,
\* if an upload_url came back, the PUT succeeded too; a transport or HTTP
\* failure of either phase makes it throw a NETWORK_ERROR.
C7_ResultOnlyOnFullSuccess ==
    (ppc = "done") =>
        /\ outcome.kind = "returned" =>
              (postOk /\ netError = NoError /\ (uploadUrl => putCalls = 1))
        /\ TransportFailure =>
              (outcome.kind = "threw" /\ outcome.err.kind = "NETWORK_ERROR")

\* C8: a retried attempt k whose error carries no retry-after hint is
\* followed by a wait of min(baseDelay * factor^(k-1), maxDelay), the delay
\* the observer is given.
C8_ExponentialBackoff ==
    \A k \in 1 .. Len(sleeps) :
        ~raised[k].hasRetryAfter =>
            /\ sleeps[k] = Min(opts.baseDelay * Pow(opts.factor, k - 1), opts.maxDelay)
            /\ ObserverSaw(k, sleeps[k])

\* C9 as stated: a retry-after hint of 10 seconds gives a wait of exactly
\* 10000 ms, whatever the options.
C9_HintIsExactly10000 ==
    \A k \in 1 .. Len(sleeps) :
        (raised[k].hasRetryAfter /\ raised[k].retryAfter = 10) => sleeps[k] = 10000

\* C9 (amended): a retry-after hint of 10 seconds gives a wait of
\* min(10000, maxDelay) ms for every baseDelay and factor: exactly 10000 ms
\* whenever maxDelay >= 10000, and the observer is given that delay.
C9_HintOverridesBackoff ==
    \A k \in 1 .. Len(sleeps) :
        (raised[k].hasRetryAfter /\ raised[k].retryAfter = 10) =>
            /\ sleeps[k] = Min(10000, opts.maxDelay)
            /\ opts.maxDelay >= 10000 => sleeps[k] = 10000
            /\ ObserverSaw(k, sleeps[k])

\* a 10 s hint was honoured although the backoff formula gives another delay
C9_Witness ==
    \E k \in 1 .. Len(sleeps) :
        /\ raised[k].hasRetryAfter /\ raised[k].retryAfter = 10
        /\ sleeps[k] = 10000
        /\ opts.hasOnRetry
        /\ Min(opts.baseDelay * Pow(opts.factor, k - 1), opts.maxDelay) # 10000

\* C10 as stated: a hint of h seconds with h * 1000 > maxDelay still gives a
\* wait of h * 1000 ms.
C10_HintNotCapped ==
    \A k \in 1 .. Len(sleeps) :
        (raised[k].hasRetryAfter /\ raised[k].retryAfter * 1000 > opts.maxDelay) =>
            sleeps[k] = raised[k].retryAfter * 1000

\* C10 (amended): the hint is subject to the maxDelay cap: a hint of h
\* seconds with h * 1000 > maxDelay gives a wait of maxDelay ms.
C10_HintCapped ==
    \A k \in 1 .. Len(sleeps) :
        (raised[k].hasRetryAfter /\ raised[k].retryAfter * 1000 > opts.maxDelay) =>
            /\ sleeps[k] = opts.maxDelay
            /\ ObserverSaw(k, opts.maxDelay)

\* the 60 s hint against the default maxDelay of 30000 ms
C10_Witness ==
    \E k \in 1 .. Len(sleeps) :
        /\ raised[k].hasRetryAfter /\ raised[k].retryAfter = DefaultRateLimitDelay
        /\ opts.maxDelay = DefaultMaxDelay
        /\ opts.hasOnRetry
        /\ sleeps[k] = DefaultMaxDelay

(***************************************************************************)
(* The publish command                                                     *)
(***************************************************************************)
\* C11: when the command has ended, a failure of any stage was passed to
\* handleError and the exit code is the one handleError gives the error's
\* kind (2 AUTH, 3 VALIDATION, 4 NETWORK, 5 FILESYSTEM, 1 otherwise), and a
\* run without failure exits with 0.
C11_ExitCodeByKind ==
    (caller = "command" /\ cpc = "exited") =>
        IF cmdError = NoError
        THEN exitCode = 0
        ELSE handlerCalls = 1 /\ exitCode = handleError(cmdError)

\* C12: a dry run never reaches publishConnector: no temporary archive, no
\* POST, no PUT; and a dry run that ends with code 0 has read a manifest
\* that validateManifest accepted.
C12_DryRunPublishesNothing ==
    (caller = "command" /\ dryRun) =>
        /\ ppc = "idle"
        /\ ~zipExists
        /\ postCalls = 0 /\ putCalls = 0
        /\ outcome = NoOutcome
        /\ (cpc = "exited" /\ exitCode = 0) =>
              (validated /\ snapshot # NoManifest /\ validateManifest(JsonFile(snapshot)).ok)

\* a dry run with a token, in a directory without a manifest, scaffolded the
\* manifest, validated it and ended with code 0
C12_Witness ==
    /\ caller = "command" /\ dryRun /\ Truthy(cmdToken)
    /\ cpc = "exited" /\ exitCode = 0
    /\ writes = 1 /\ validated

(***************************************************************************)
(* The manifest functions called directly                                  *)
(***************************************************************************)
\* the manifest validateManifest was called on
Validated == uin.fn = "validateManifest" /\ unit = "validateManifest" /\ manifestFile.kind = "json"

\* the first of schema, id, tools, _contextmesh the manifest lacks
FirstMissing(m) ==
    IF "schema" \notin m.has THEN "schema"
    ELSE IF "id" \notin m.has THEN "id"
    ELSE IF "tools" \notin m.has THEN "tools"
    ELSE "_contextmesh"

\* C13: validateManifest on a manifest that lacks a required top-level
\* property rejects with a VALIDATION_ERROR whose message is 'Missing
\* required property: ' followed by the first missing property in the order
\* schema, id, tools, _contextmesh.
C13_MissingPropertyNamed ==
    (Validated /\ manifestFile.m.has # {"schema", "id", "tools", "_contextmesh"}) =>
        /\ ~uout.ok
        /\ uout.err.kind = "VALIDATION_ERROR"
        /\ uout.err.msg = "Missing required property"
        /\ uout.err.names = <<FirstMissing(manifestFile.m)>>

\* a manifest that passes the schema check
StructurallyValid(m) ==
    /\ m.has = {"schema", "id", "tools", "_contextmesh"}
    /\ m.schema = "https://mcp.dev/schema/1.0"
    /\ m.id = <<"a", "-", "1">>
    /\ m.version = <<"0", ".", "1", ".", "0">>

\* how often a name occurs in a list of names
Count(names, n) == Cardinality({ i \in DOMAIN names : names[i] = n })

Shared(m) == { n \in Range(m.tools) : Count(m.tools, n) >= 2 }

\* C14 as stated: with some tool name shared, validateManifest fails with
\* 'Duplicate tool names found: ' followed by the shared names, each listed
\* once, and no other name.
C14_EachDuplicateOnce ==
    (Validated /\ StructurallyValid(manifestFile.m) /\ Shared(manifestFile.m) # {}) =>
        /\ ~uout.ok
        /\ uout.err.msg = "Duplicate tool names found"
        /\ Range(uout.err.names) = Shared(manifestFile.m)
        /\ \A n \in Shared(manifestFile.m) : Count(uout.err.names, n) = 1

\* C14 amended: the list holds a shared name once for every occurrence after
\* its first, and no other name; with two tools sharing one name the list is
\* exactly that name.
C14_DuplicatesAfterFirst ==
    (Validated /\ StructurallyValid(manifestFile.m) /\ Shared(manifestFile.m) # {}) =>
        /\ ~uout.ok
        /\ uout.err.msg = "Duplicate tool names found"
        /\ Range(uout.err.names) = Shared(manifestFile.m)
        /\ \A n \in Shared(manifestFile.m) :
              Count(uout.err.names, n) = Count(manifestFile.m.tools, n) - 1
        /\ (Len(manifestFile.m.tools) = 2) => (uout.err.names = <<manifestFile.m.tools[1]>>)

\* three tools of one name: the name is listed twice
C14_Witness ==
    /\ Validated /\ StructurallyValid(manifestFile.m)
    /\ manifestFile.m.tools = <<"t", "t", "t">>
    /\ uout.err.names = <<"t", "t">>

\* C15: every failure of loadManifest is a FILESYSTEM_ERROR: 'File not found'
\* for a missing file, an error with operation 'read' for content that is
\* not JSON, the variant of the I/O code (EACCES, ...) otherwise.
C15_LoadFailsWithFileSystemError ==
    (unit = "loadManifest" /\ ~uout.ok) =>
        /\ uout.err.kind = "FILESYSTEM_ERROR"
        /\ uout.err.cls = "FileSystemError"
        /\ (manifestFile.kind = "missing") => (uout.err.msg = "File not found")

(***************************************************************************)
(* NetworkError.fromAxiosError                                             *)
(***************************************************************************)
\* the failure is refused, timed out or reset, and carries no HTTP response
ConnectionRetryable(ax) ==
    ax.status = 0 /\ ax.code \in {"ECONNREFUSED", "ETIMEDOUT", "ECONNABORTED", "ECONNRESET"}

\* C16 as stated: the error is retryable exactly for HTTP 429, any HTTP 5xx
\* and refused / timed out / reset connections.
C16_Any5xxRetryable ==
    (unit = "fromAxiosError") =>
        (uout.retryable <=>
            \/ uin.arg.status = 429
            \/ (uin.arg.status >= 500 /\ uin.arg.status <= 599)
            \/ ConnectionRetryable(uin.arg))

\* C16 amended: the error is retryable exactly for HTTP 429, 500, 502, 503,
\* 504 and refused / timed out / reset connections (so not for 400, 401, 403,
\* 404, 409, 413, 422, 501 or an unresolved host); a 429 carries retryAfter
\* parsed from the retry-after header, or 60 when the header is absent.
C16_RetryableTable ==
    (unit = "fromAxiosError") =>
        /\ uout.kind = "NETWORK_ERROR"
        /\ uout.retryable <=>
              \/ uin.arg.status \in {429, 500, 502, 503, 504}
              \/ ConnectionRetryable(uin.arg)
        /\ (uin.arg.status = 429) =>
              /\ uout.hasRetryAfter
              /\ (uin.arg.header = <<>>) => (uout.retryAfter = 60)
              /\ (uin.arg.header = <<"1", "0">>) => (uout.retryAfter = 10)
              /\ (uin.arg.header = <<"1", "2", "0">>) => (uout.retryAfter = 120)
        /\ (uin.arg.status # 429) => ~uout.hasRetryAfter

\* HTTP 501 is a 5xx status and is not retryable
C16_Witness ==
    /\ unit = "fromAxiosError"
    /\ uin.arg.status = 501
    /\ ~uout.retryable

(***************************************************************************)
(* createManifestIfMissing                                                 *)
(***************************************************************************)
\* C17: a call of createManifestIfMissing on a directory that has a manifest
\* file writes nothing and leaves the file as it is (so a second call after
\* a first one that created the file changes nothing).
C17_NeverOverwrites ==
    [][(createCalls' = createCalls + 1 /\ manifestFile.kind # "missing") =>
          (manifestFile' = manifestFile /\ writes' = writes /\ uout'.ok)]_vars

\* two calls on a directory with a manifest written before: nothing written;
\* the file is still what it was
C17_Witness ==
    /\ unit = "createManifestIfMissing"
    /\ createCalls = 2
    /\ writes = 0
    /\ manifestFile = JsonFile(ExistingManifest)

\* a manifest was created for the directory
Scaffolded == unit = "createManifestIfMissing" /\ writes = 1

\* C18 as stated: the id is the lowercased base name with every maximal run
\* of characters outside [a-z0-9-] replaced by one hyphen.
C18_IdCollapsesRuns ==
    Scaffolded => (manifestFile.m.id = SlugPerRun(toLowerCase(dirName), FALSE))

\* C18 amended: the id has one character per character of the base name:
\* the lowercased character when that is in [a-z0-9-], a hyphen otherwise
\* (a run of n characters outside the class gives n hyphens).
C18_IdPerCharacter ==
    Scaffolded =>
        /\ Len(manifestFile.m.id) = Len(dirName)
        /\ \A i \in DOMAIN dirName :
              manifestFile.m.id[i] =
                  CASE dirName[i] \in {"a", "1", "-"} -> dirName[i]
                    [] dirName[i] = "M" -> "m"
                    [] dirName[i] \in {"_", "@"} -> "-"

\* the base name M_@ gives the id m--
C18_Witness ==
    /\ Scaffolded
    /\ dirName = <<"M", "_", "@">>
    /\ manifestFile.m.id = <<"m", "-", "-">>

(***************************************************************************)
(* createZipArchive                                                        *)
(***************************************************************************)
\* a file below a dependency-install, version-control or build-output directory
UnderExcludedDirectory(f) ==
    \E i \in 1..(Len(f) - 1) : f[i] \in { <<"node_modules">>, <<".git">>, <<"dist">>, <<"build">> }

\* a log, OS artifact, environment or temp file, or the archive's own file
ExcludedFile(f) ==
    \/ f[Len(f)] \in { <<".DS_Store">>, <<"Thumbs.db">>, <<".contextmesh-publish", ".zip">> }
    \/ f[Len(f)][Len(f[Len(f)])] \in {".log", ".tmp", ".temp"}
    \/ f[Len(f)][1] = ".env"

\* C20: the archive's entries are exactly the files that are neither below
\* an excluded directory at any depth nor an excluded file, each under its
\* relative path.
C20_ExcludedNeverArchived ==
    (unit = "createZipArchive") =>
        (uout = { f \in uin.arg : ~UnderExcludedDirectory(f) /\ ~ExcludedFile(f) })

(***************************************************************************)
(* The manifest within one run of the command                              *)
(***************************************************************************)
\* C21: in a run of the command that sends the metadata POST, the manifest
\* file was read once and the manifest the POST carries is the manifest
\* validateManifest returned, whatever happened to the file in between.
C21_ImmutableSnapshot ==
    (caller = "command" /\ postCalls > 0) => (posted = snapshot /\ reads = 1)

\* C22: in a run of the command the stages gate each other: an archive, a
\* started publishConnector or a network request implies that
\* validateManifest accepted the manifest; a network request implies that
\* the manifest was loaded and packing has produced the checksum; a PUT
\* implies a successful POST.
C22_StagesGateEachOther ==
    (caller = "command") =>
        /\ (zipExists \/ ppc # "idle" \/ checksum \/ postCalls > 0 \/ putCalls > 0) =>
              (validated /\ snapshot # NoManifest /\ ~dryRun)
        /\ (zipExists \/ checksum) => posted # NoManifest
        /\ (postCalls > 0 \/ putCalls > 0) => checksum
        /\ (putCalls > 0) => postOk

\* a run that went through all four stages and ended with code 0
C22_Witness ==
    /\ caller = "command" /\ cpc = "exited" /\ exitCode = 0
    /\ validated /\ checksum
    /\ postCalls = 1 /\ putCalls = 1

(***************************************************************************)
(* The order of the validator's checks                                     *)
(***************************************************************************)
\* C23: a manifest with a structural violation fails with the structural
\* message whatever its tools are (also with tools: []); a structurally
\* valid manifest fails with 'Connector must define at least one tool' when
\* its tools are empty, else with 'Duplicate tool names found' when a name
\* is shared, and is returned otherwise.
C23_ChecksInOrder ==
    Validated =>
        IF ~StructurallyValid(manifestFile.m)
        THEN ~uout.ok /\ uout.err.msg = "Manifest validation failed"
        ELSE IF manifestFile.m.tools = <<>>
        THEN ~uout.ok /\ uout.err.msg = "Connector must define at least one tool"
        ELSE IF Shared(manifestFile.m) # {}
        THEN ~uout.ok /\ uout.err.msg = "Duplicate tool names found"
        ELSE uout.ok /\ uout.value = manifestFile.m

\* a manifest without _contextmesh and with tools: [] fails with the
\* structural message
C23_Witness ==
    /\ Validated
    /\ manifestFile.m.has = {"schema", "id", "tools"}
    /\ manifestFile.m.tools = <<>>
    /\ uout.err.msg = "Manifest validation failed"

(***************************************************************************)
(* withRetry: sequencing and termination                                   *)
(***************************************************************************)
\* invocations of the operation that have started and not yet completed
InFlight == calls - Len(raised) - (IF rpc = "returned" THEN 1 ELSE 0)

\* C24: at most one invocation of the operation is in flight, and none while
\* withRetry waits; invocation k+1 has started only after k failures and k
\* elapsed waits; the observer was called once per wait, the k-th time with
\* (k, the k-th error, the k-th delay); when withRetry has completed after
\* at least one invocation the observer was called (invocations - 1) times.
C24_SequentialAttempts ==
    (rpc # "idle" /\ opts.maxAttempts >= 1) =>
        /\ InFlight \in {0, 1}
        /\ (InFlight = 1) <=> (rpc = "awaitFn")
        /\ (rpc = "awaitFn") => (Len(raised) = calls - 1 /\ Len(sleeps) = calls - 1)
        /\ (rpc = "sleeping") => (Len(raised) = calls /\ Len(sleeps) = calls)
        /\ (rpc \in {"returned", "threw"}) => (Len(sleeps) = calls - 1)
        /\ opts.hasOnRetry =>
              /\ Len(onRetryLog) = Len(sleeps)
              /\ \A k \in 1 .. Len(onRetryLog) :
                    onRetryLog[k] = [attempt |-> k, error |-> raised[k], delay |-> sleeps[k]]

\* three invocations, the third succeeded: the observer was called twice
C24_Witness ==
    /\ caller = "test"
    /\ rpc = "returned"
    /\ opts.hasOnRetry
    /\ calls = 3
    /\ Len(onRetryLog) = 2
    /\ onRetryLog[2].attempt = 2

(***************************************************************************)
(* Deletion failures                                                       *)
(***************************************************************************)
\* C25: a failed deletion of the temporary archive leaves the outcome of
\* publishConnector as it was: after both protocol phases succeeded the
\* call returns the result, and after the network phase threw the call
\* throws that error.
C25_UnlinkFailureKeepsOutcome ==
    (ppc = "done" /\ checksum) =>
        /\ (postOk /\ netError = NoError) =>
              (outcome.kind = "returned" /\ outcome.uploadUrl = uploadUrl)
        /\ (netError # NoError) =>
              (outcome.kind = "threw" /\ outcome.err.id = netError.id)

(***************************************************************************)
(* Two concurrent calls                                                    *)
(***************************************************************************)
\* call p finished its pack with its own complete archive at the path, sent
\* that archive's checksum, and then opened something else for the PUT: the
\* other call's unfinished archive, or nothing
UploadedForeignBytes(p) ==
    /\ race[p].packed = Complete(p)
    /\ race[p].sum = p
    /\ race[p].put \notin {NotRead, Complete(p)}

\* C26: a call uploads something other than the archive it packed only when
\* the other call has started: alone, a call's pack leaves its own complete
\* archive at the path and its PUT reads that archive.
C26_OnlyTheOtherCallInterferes ==
    \A p \in Calls :
        (\A q \in Calls \ {p} : race[q].pc = "idle") =>
            /\ (race[p].packed # NotRead) => (race[p].packed = Complete(p))
            /\ (race[p].put # NotRead) => (race[p].put = Complete(p))

\* C26, the race: the second call has created or deleted the shared file
\* while the first was between its pack and its PUT
C26_Witness ==
    /\ UploadedForeignBytes(1)
    /\ race[2].pc # "idle"
    /\ race[1].put \in {NoZip, Partial(2)}

(***************************************************************************)
(* publishConnector without a token                                        *)
(***************************************************************************)
\* C27: a publishConnector call whose token is undefined or '' has thrown the
\* AUTH_ERROR of missingToken and has done nothing else: the manifest was not
\* read, no archive was created and no request was sent.
C27_NoTokenNoWork ==
    (caller = "publish" /\ (~cmdToken.defined \/ cmdToken.text = <<>>)) =>
        /\ ppc = "done"
        /\ outcome.kind = "threw"
        /\ outcome.err.cls = "AuthenticationError"
        /\ outcome.err.kind = "AUTH_ERROR"
        /\ reads = 0 /\ posted = NoManifest
        /\ ~zipExists /\ ~checksum
        /\ postCalls = 0 /\ putCalls = 0 /\ calls = 0

\* publishConnector was called with the empty string for a token
C27_Witness ==
    /\ caller = "publish"
    /\ cmdToken = Token(<<>>)
    /\ outcome.kind = "threw"
    /\ outcome.err.kind = "AUTH_ERROR"

(***************************************************************************)
(* withRetry: invocation count and completion                              *)
(***************************************************************************)
InvocationBounds ==
    (rpc # "idle") =>
        /\ (opts.maxAttempts <= 0) =>
              /\ calls = 0 /\ raised = <<>>
              /\ rpc = "threw"
              /\ thrown.cls = "Error" /\ thrown.kind = "" /\ thrown.code = "Retry failed"
        /\ (opts.maxAttempts >= 1) => (1 <= calls /\ calls <= opts.maxAttempts)

\* C28: with maxAttempts <= 0 the operation is never invoked and withRetry
\* rejects with the generic Error 'Retry failed'; with maxAttempts >= 1 the
\* operation is invoked at least once and at most maxAttempts times; and, when
\* every invocation completes, a withRetry call that is waiting for the
\* operation or for its delay eventually returns or rejects.
C28_BoundedAndCompletes ==
    /\ []InvocationBounds
    /\ (rpc \in {"awaitFn", "sleeping"}) ~> (rpc \in {"returned", "threw"})

\* withRetry with maxAttempts 3 completed after two failed invocations, two
\* waits and a third invocation
C28_Witness ==
    /\ caller = "test" /\ opts.maxAttempts = 3
    /\ rpc = "returned" /\ calls = 3 /\ Len(sleeps) = 2

(***************************************************************************)
(* handleError: exit codes                                                 *)
(***************************************************************************)
\* C29: handleError exits with 2, 3, 4 or 5 only for an instance of a taxonomy
\* class, by its code; an Error that is not one exits with 1, also when it is
\* displayed as a network, filesystem, validation or authentication error.
C29_UpgradedErrorsExitOne ==
    (unit = "handleError") =>
        /\ handlerCalls = 1
        /\ (uin.arg.cls = "Error") => exitCode = 1
        /\ (exitCode \in 2..5) =>
              uin.arg.cls \in {"AuthenticationError", "ValidationError", "NetworkError", "FileSystemError"}
        /\ (uin.arg.cls = "AuthenticationError") => exitCode = 2
        /\ (uin.arg.cls = "ValidationError") => exitCode = 3
        /\ (uin.arg.cls = "NetworkError") => exitCode = 4
        /\ (uin.arg.cls = "FileSystemError") => exitCode = 5

\* a plain Error whose message holds "INVALID" was displayed as a validation
\* error and the process exited with 1
C29_Witness ==
    /\ unit = "handleError"
    /\ uin.arg.cls = "Error" /\ ~uin.arg.isAxiosError /\ uin.arg.code = ""
    /\ uin.arg.message = <<"I", "N", "V", "A", "L", "I", "D">>
    /\ uout.value = "VALIDATION_ERROR"
    /\ exitCode = 1

(***************************************************************************)
(* Scaffold, then validate                                                 *)
(***************************************************************************)
\* C30: when createManifestIfMissing has written the default manifest for a
\* directory with a non-empty base name, validateManifest on it returns the
\* manifest that is in the file: its id is non-empty and made of [a-z0-9-],
\* it has one tool, version 0.1.0, one tag, language typescript and a
\* repository on github.com.
C30_ScaffoldValidates ==
    (unit = "validateManifest" /\ uin.fn = "createManifestIfMissing" /\ writes > 0 /\ Len(dirName) > 0) =>
        /\ uout.ok
        /\ uout.value = manifestFile.m
        /\ Len(uout.value.id) = Len(dirName)
        /\ \A i \in DOMAIN uout.value.id :
              uout.value.id[i] \in Range(LowerCase) \cup {"0", "1", "2", "3", "4", "5", "6", "7", "8", "9", "-"}
        /\ Len(uout.value.tools) = 1
        /\ uout.value.version = <<"0", ".", "1", ".", "0">>
        /\ Len(uout.value.tags) = 1
        /\ uout.value.language = "typescript"
        /\ uout.value.repoHost = "github.com"

\* the manifest scaffolded in a directory named M_@ has id m-- and passed
C30_Witness ==
    /\ unit = "validateManifest"
    /\ uin.fn = "createManifestIfMissing" /\ writes = 1
    /\ dirName = <<"M", "_", "@">>
    /\ uout.ok
    /\ uout.value.id = <<"m", "-", "-">>

====
